---- MODULE Spec2Model ----
(***************************************************************************)
(* Model of the SQS Queue construct (packages/@aws-cdk/aws-sqs/lib/queue.ts)*)
(* and of the Cognito custom attribute types (StringAttr, NumberAttr, ...).*)
(*                                                                         *)
(* Strings are sequences of atoms.  Text that the code inspects (queue     *)
(* names, the '.fifo' suffix, decimal digits) is spelled character by      *)
(* character; text that is only copied (regions, accounts, fixed template  *)
(* parts) is one atom.  An optional value is <<>> (undefined) or <<v>>.    *)
(***************************************************************************)
EXTENDS Integers, Sequences, FiniteSets, TLC

VARIABLES
    tree,      \* the construct tree: the set of construct nodes created so far
    calls,     \* the props.encryption / props.encryptionMasterKey of every `new Queue` so far
    last,      \* the last `new Queue(scope, id, props)`: its props and its outcome
    attr,      \* the last custom attribute construction: its props and its outcome
    config,    \* the last bind(): the attribute bound and the CustomAttrConfig returned
    imported   \* the last Queue.fromQueueAttributes(): its attrs and the IQueue returned

vars == <<tree, calls, last, attr, config, imported>>

---------------------------------------------------------------------------
(* Bounds *)

MaxQueues == 2      \* constructs of one kind created in the scope
MaxMag == 2         \* how far the numeric inputs range around 0 and around 2048

---------------------------------------------------------------------------
(* Optional values and JavaScript truthiness *)

None == <<>>
Some(x) == <<x>>
IsDefined(o) == Len(o) = 1
Get(o) == o[1]

\* an optional boolean used as a condition: undefined and false are falsy
TruthyBool(o) == IsDefined(o) /\ Get(o) = TRUE
\* an optional string used as a condition: undefined and '' are falsy
TruthyStr(o) == IsDefined(o) /\ Len(Get(o)) > 0
\* an optional number used as a condition: undefined and 0 are falsy
TruthyNum(o) == IsDefined(o) /\ Get(o) # 0

---------------------------------------------------------------------------
(* Strings *)

\* String.prototype.endsWith
endsWith(s, suffix) ==
    /\ Len(s) >= Len(suffix)
    /\ SubSeq(s, Len(s) - Len(suffix) + 1, Len(s)) = suffix

FIFO_SUFFIX == <<".", "f", "i", "f", "o">>

\* the marker a string-encoded token carries until it is resolved
TOKEN == "${Token[TOKEN.1]}"

\* Token.isUnresolved on a string: it contains a token marker
isUnresolved(s) == \E i \in 1..Len(s) : s[i] = TOKEN

Digits == <<"0", "1", "2", "3", "4", "5", "6", "7", "8", "9">>

RECURSIVE natToString(_)
natToString(n) ==
    IF n < 10 THEN <<Digits[n + 1]>>
    ELSE natToString(n \div 10) \o <<Digits[(n % 10) + 1]>>

\* Number.prototype.toString on an integer
toString(n) == IF n < 0 THEN <<"-">> \o natToString(0 - n) ELSE natToString(n)

---------------------------------------------------------------------------
(* QueueProps *)

UNENCRYPTED == "NONE"
KMS_MANAGED == "MANAGED"
KMS == "KMS"
QueueEncryption == {UNENCRYPTED, KMS_MANAGED, KMS}

\* a key that exists outside the scope and is passed in as props.encryptionMasterKey
ExternalKey == <<"ExternalKey">>

\* IKey.keyArn
keyArn(key) == <<"${Token[">> \o key \o <<".Arn]}">>

OptBool == {None, Some(TRUE), Some(FALSE)}

\* '', 'q', 'q.fifo', and a late-bound name with and without the suffix
QueueNames ==
    {<<>>, <<"q">>, <<"q">> \o FIFO_SUFFIX, <<TOKEN>>, <<TOKEN>> \o FIFO_SUFFIX}

\* the props of `new Queue`; the properties validateProps() inspects and the
\* dead letter queue are left unset
QueueProps ==
    [queueName : {None} \cup {Some(n) : n \in QueueNames},
     fifo : OptBool,
     contentBasedDeduplication : OptBool,
     encryption : {None} \cup {Some(e) : e \in QueueEncryption},
     encryptionMasterKey : {None, Some(ExternalKey)},
     dataKeyReuse : {None}]

---------------------------------------------------------------------------
(* Queue.determineFifoProps *)

FifoNameError == "FIFO queue names must end in '.fifo'"
NonFifoNameError == "Non-FIFO queue name may not end in '.fifo'"
DedupError == "Content-based deduplication can only be defined for FIFO queues"
EncryptionTypeError == "Unexpected 'encryptionType'"

\* inferFifoQueue without the inference from the name
inferFifoQueue_noNameInference(props) ==
    IF props.fifo = None /\ TruthyBool(props.contentBasedDeduplication)
    THEN Some(TRUE) ELSE props.fifo

\* the value of fifoQueue after the two inference steps
inferFifoQueue(props) ==
    LET queueName == props.queueName
        fromName ==
            IF /\ props.fifo = None
               /\ TruthyStr(queueName)
               /\ ~isUnresolved(Get(queueName))
               /\ endsWith(Get(queueName), FIFO_SUFFIX)
            THEN Some(TRUE) ELSE props.fifo
    IN  IF fromName = None /\ TruthyBool(props.contentBasedDeduplication)
        THEN Some(TRUE) ELSE fromName

\* determineFifoProps without the check that a non-FIFO name does not end in '.fifo'
determineFifoProps_noNonFifoNameCheck(props) ==
    LET fifoQueue == inferFifoQueue(props)
        queueName == props.queueName
    IN  IF /\ IsDefined(queueName)
           /\ TruthyBool(fifoQueue)
           /\ ~endsWith(Get(queueName), FIFO_SUFFIX)
        THEN [thrown |-> Some(FifoNameError), value |-> None]
        ELSE IF TruthyBool(props.contentBasedDeduplication) /\ ~TruthyBool(fifoQueue)
        THEN [thrown |-> Some(DedupError), value |-> None]
        ELSE [thrown |-> None,
              value |-> Some([contentBasedDeduplication |-> props.contentBasedDeduplication,
                              fifoQueue |-> fifoQueue])]

\* determineFifoProps without the check that deduplication needs a FIFO queue
determineFifoProps_noDedupCheck(props) ==
    LET fifoQueue == inferFifoQueue(props)
        queueName == props.queueName
    IN  IF /\ IsDefined(queueName)
           /\ TruthyBool(fifoQueue)
           /\ ~endsWith(Get(queueName), FIFO_SUFFIX)
        THEN [thrown |-> Some(FifoNameError), value |-> None]
        ELSE IF /\ IsDefined(queueName)
                /\ ~TruthyBool(fifoQueue)
                /\ endsWith(Get(queueName), FIFO_SUFFIX)
        THEN [thrown |-> Some(NonFifoNameError), value |-> None]
        ELSE [thrown |-> None,
              value |-> Some([contentBasedDeduplication |-> props.contentBasedDeduplication,
                              fifoQueue |-> fifoQueue])]

determineFifoProps(props) ==
    LET fifoQueue == inferFifoQueue(props)
        queueName == props.queueName
    IN  IF /\ IsDefined(queueName)
           /\ TruthyBool(fifoQueue)
           /\ ~endsWith(Get(queueName), FIFO_SUFFIX)
        THEN [thrown |-> Some(FifoNameError), value |-> None]
        ELSE IF /\ IsDefined(queueName)
                /\ ~TruthyBool(fifoQueue)
                /\ endsWith(Get(queueName), FIFO_SUFFIX)
        THEN [thrown |-> Some(NonFifoNameError), value |-> None]
        ELSE IF TruthyBool(props.contentBasedDeduplication) /\ ~TruthyBool(fifoQueue)
        THEN [thrown |-> Some(DedupError), value |-> None]
        ELSE [thrown |-> None,
              value |-> Some([contentBasedDeduplication |-> props.contentBasedDeduplication,
                              fifoQueue |-> fifoQueue])]

---------------------------------------------------------------------------
(* _determineEncryptionProps *)

Node(path, kind) == [path |-> path, kind |-> kind]

\* node.path of the id-th construct created in the scope
QueuePath(id) == <<"Queue">> \o toString(id)
ChildPath(path, id) == path \o <<"/", id>>

\* effectiveEncryption without the upgrade a supplied key implies
effectiveEncryption_noUpgrade(props) ==
    IF IsDefined(props.encryption) THEN Get(props.encryption) ELSE UNENCRYPTED

\* the mode after the implied upgrade
effectiveEncryption(props) ==
    LET encryption == IF IsDefined(props.encryption) THEN Get(props.encryption) ELSE UNENCRYPTED
    IN  IF encryption # KMS /\ IsDefined(props.encryptionMasterKey) THEN KMS ELSE encryption

\* _determineEncryptionProps creating a key in KMS mode even when one is supplied
_determineEncryptionProps_alwaysNewKey(props, path) ==
    LET encryption == effectiveEncryption(props)
        reuse == props.dataKeyReuse
        masterKey == ChildPath(path, "Key")
    IN  IF encryption = UNENCRYPTED
        THEN [thrown |-> None, created |-> {}, encryptionMasterKey |-> None,
              encryptionProps |-> [kmsMasterKeyId |-> None,
                                   kmsDataKeyReusePeriodSeconds |-> None]]
        ELSE IF encryption = KMS_MANAGED
        THEN [thrown |-> None, created |-> {}, encryptionMasterKey |-> None,
              encryptionProps |-> [kmsMasterKeyId |-> Some(<<"alias/aws/sqs">>),
                                   kmsDataKeyReusePeriodSeconds |-> reuse]]
        ELSE [thrown |-> None,
              created |-> {Node(masterKey, "Key")},
              encryptionMasterKey |-> Some(masterKey),
              encryptionProps |-> [kmsMasterKeyId |-> Some(keyArn(masterKey)),
                                   kmsDataKeyReusePeriodSeconds |-> reuse]]

\* created: the constructs the call adds below the queue (`new kms.Key(this, 'Key')`)
_determineEncryptionProps(props, path) ==
    LET encryption == effectiveEncryption(props)
        reuse == props.dataKeyReuse
    IN  IF encryption = UNENCRYPTED
        THEN [thrown |-> None, created |-> {}, encryptionMasterKey |-> None,
              encryptionProps |-> [kmsMasterKeyId |-> None,
                                   kmsDataKeyReusePeriodSeconds |-> None]]
        ELSE IF encryption = KMS_MANAGED
        THEN [thrown |-> None, created |-> {}, encryptionMasterKey |-> None,
              encryptionProps |-> [kmsMasterKeyId |-> Some(<<"alias/aws/sqs">>),
                                   kmsDataKeyReusePeriodSeconds |-> reuse]]
        ELSE IF encryption = KMS
        THEN LET supplied == IsDefined(props.encryptionMasterKey)
                 masterKey == IF supplied THEN Get(props.encryptionMasterKey)
                              ELSE ChildPath(path, "Key")
             IN  [thrown |-> None,
                  created |-> IF supplied THEN {} ELSE {Node(masterKey, "Key")},
                  encryptionMasterKey |-> Some(masterKey),
                  encryptionProps |-> [kmsMasterKeyId |-> Some(keyArn(masterKey)),
                                       kmsDataKeyReusePeriodSeconds |-> reuse]]
        ELSE [thrown |-> Some(EncryptionTypeError), created |-> {}, encryptionMasterKey |-> None,
              encryptionProps |-> [kmsMasterKeyId |-> None,
                                   kmsDataKeyReusePeriodSeconds |-> None]]

---------------------------------------------------------------------------
(* Queue.constructor *)

\* The constructor in the order of its statements: super() attaches the queue
\* to the scope, _determineEncryptionProps runs, then determineFifoProps, then
\* the CfnQueue is created and the attributes are assigned.  A throw leaves
\* the constructs created before it in the tree and returns no queue.
Queue_constructor(props, id, scopeTree) ==
    LET path == QueuePath(id)
        attached == scopeTree \cup {Node(path, "Queue")}
        enc == _determineEncryptionProps(props, path)
        afterEnc == attached \cup enc.created
        fifoProps == determineFifoProps(props)
    IN  IF IsDefined(enc.thrown)
        THEN [tree |-> attached, thrown |-> enc.thrown, queue |-> None]
        ELSE IF IsDefined(fifoProps.thrown)
        THEN [tree |-> afterEnc, thrown |-> fifoProps.thrown, queue |-> None]
        ELSE LET fp == Get(fifoProps.value)
                 resource == [queueName |-> props.queueName,
                              fifoQueue |-> fp.fifoQueue,
                              contentBasedDeduplication |-> fp.contentBasedDeduplication,
                              kmsMasterKeyId |-> enc.encryptionProps.kmsMasterKeyId,
                              kmsDataKeyReusePeriodSeconds |->
                                  enc.encryptionProps.kmsDataKeyReusePeriodSeconds]
             IN  [tree |-> afterEnc \cup {Node(ChildPath(path, "Resource"), "CfnQueue")},
                  thrown |-> None,
                  queue |-> Some([path |-> path,
                                  fifo |-> TruthyBool(fp.fifoQueue),
                                  encryptionMasterKey |-> enc.encryptionMasterKey,
                                  autoCreatePolicy |-> TRUE,
                                  resource |-> resource])]

NewQueue(props) ==
    /\ Len(calls) < MaxQueues
    /\ LET id == Len(calls) + 1
           r == Queue_constructor(props, id, tree)
       IN  /\ tree' = r.tree
           /\ calls' = Append(calls, [encryption |-> props.encryption,
                                      encryptionMasterKey |-> props.encryptionMasterKey])
           /\ last' = Some([id |-> id, props |-> props, thrown |-> r.thrown, queue |-> r.queue])
    /\ UNCHANGED <<attr, config, imported>>

---------------------------------------------------------------------------
(* Queue.fromQueueAttributes *)

\* Stack.of(scope): the deployment context of the importing scope
Stacks ==
    {[region |-> <<"us-east-1">>, urlSuffix |-> <<"amazonaws.com">>, account |-> <<"123456789012">>],
     [region |-> <<"eu-west-1">>, urlSuffix |-> <<"amazonaws.com">>, account |-> <<"210987654321">>]}

\* arn:aws:sqs:<region>:<account>:<resource>
Arn(service, region, account, resource) ==
    <<"arn", ":", "aws", ":", service, ":">> \o region \o <<":">> \o account \o <<":">> \o resource

\* the components of a string between the separators
RECURSIVE split(_, _)
split(s, sep) ==
    IF \A i \in 1..Len(s) : s[i] # sep THEN <<s>>
    ELSE LET i == CHOOSE k \in 1..Len(s) : s[k] = sep /\ \A j \in 1..(k - 1) : s[j] # sep
         IN  <<SubSeq(s, 1, i - 1)>> \o split(SubSeq(s, i + 1, Len(s)), sep)

\* Stack.parseArn(arn).resource: the sixth component of the ARN
parseArn(arn) == [resource |-> split(arn, ":")[6]]

ImportedResources == {<<"m", "y", "q", "u", "e", "u", "e">>, <<"q">> \o FIFO_SUFFIX}
QueueArns ==
    {Arn("sqs", st.region, st.account, r) : st \in Stacks, r \in ImportedResources}
QueueUrls == {<<"https://example.com/", "q">>}
KeyArns == {Arn("kms", <<"us-east-1">>, <<"123456789012">>, <<"key/", "k1">>)}

QueueAttributes ==
    [queueArn : QueueArns,
     queueName : {None} \cup {Some(n) : n \in QueueNames},
     queueUrl : {None, Some(<<>>)} \cup {Some(u) : u \in QueueUrls},
     keyArn : {None, Some(<<>>)} \cup {Some(k) : k \in KeyArns}]

ImportPath(id) == <<"Import">> \o toString(id)

\* fromQueueAttributes taking the name from the ARN whatever attrs.queueName is
fromQueueAttributes_nameFromArnOnly(stack, path, attrs) ==
    LET queueName == parseArn(attrs.queueArn).resource
        queueUrl == IF TruthyStr(attrs.queueUrl) THEN Get(attrs.queueUrl)
                    ELSE <<"https://sqs.">> \o stack.region \o <<".">> \o stack.urlSuffix
                         \o <<"/">> \o stack.account \o <<"/">> \o queueName
        keyPath == ChildPath(path, "Key")
    IN  [created |-> {Node(path, "Import")}
                     \cup (IF TruthyStr(attrs.keyArn) THEN {Node(keyPath, "KeyImport")} ELSE {}),
         queue |-> [queueArn |-> attrs.queueArn,
                    queueUrl |-> queueUrl,
                    queueName |-> queueName,
                    encryptionMasterKey |->
                        IF TruthyStr(attrs.keyArn)
                        THEN Some([path |-> keyPath, keyArn |-> Get(attrs.keyArn)])
                        ELSE None,
                    fifo |-> IF endsWith(queueName, FIFO_SUFFIX) THEN TRUE ELSE FALSE,
                    autoCreatePolicy |-> FALSE]]

\* the Import object `new Import(scope, id)` returns, and the constructs it attaches
fromQueueAttributes(stack, path, attrs) ==
    LET queueName == IF TruthyStr(attrs.queueName) THEN Get(attrs.queueName)
                     ELSE parseArn(attrs.queueArn).resource
        queueUrl == IF TruthyStr(attrs.queueUrl) THEN Get(attrs.queueUrl)
                    ELSE <<"https://sqs.">> \o stack.region \o <<".">> \o stack.urlSuffix
                         \o <<"/">> \o stack.account \o <<"/">> \o queueName
        keyPath == ChildPath(path, "Key")
    IN  [created |-> {Node(path, "Import")}
                     \cup (IF TruthyStr(attrs.keyArn) THEN {Node(keyPath, "KeyImport")} ELSE {}),
         queue |-> [queueArn |-> attrs.queueArn,
                    queueUrl |-> queueUrl,
                    queueName |-> queueName,
                    encryptionMasterKey |->
                        IF TruthyStr(attrs.keyArn)
                        THEN Some([path |-> keyPath, keyArn |-> Get(attrs.keyArn)])
                        ELSE None,
                    fifo |-> IF endsWith(queueName, FIFO_SUFFIX) THEN TRUE ELSE FALSE,
                    autoCreatePolicy |-> FALSE]]

Imports == {n \in tree : n.kind = "Import"}

ImportQueue(stack, attrs) ==
    /\ Cardinality(Imports) < MaxQueues
    /\ LET r == fromQueueAttributes(stack, ImportPath(Cardinality(Imports) + 1), attrs)
       IN  /\ tree' = tree \cup r.created
           /\ imported' = Some([stack |-> stack, attrs |-> attrs, queue |-> r.queue])
    /\ UNCHANGED <<calls, last, attr, config>>

---------------------------------------------------------------------------
(* Custom attributes *)

MAX_LEN == 2048

\* the numbers tried as bounds: around 0 and around the length limit
Numbers == ((0 - MaxMag)..MaxMag) \cup ((MAX_LEN - MaxMag)..(MAX_LEN + MaxMag))
OptNumber == {None} \cup {Some(n) : n \in Numbers}

StringAttrProps == [minLen : OptNumber, maxLen : OptNumber]
NumberAttrProps == [min : OptNumber, max : OptNumber]

MinLenError == "minLen cannot be less than 0"
MaxLenError == "maxLen cannot be greater than 2048"

\* the number's text, when there is a number
optToString(o) == IF IsDefined(o) THEN Some(toString(Get(o))) ELSE None

\* StringAttr's constructor rejecting a maxLen of 2048 as well
StringAttr_constructor_maxLenOffByOne(props) ==
    IF TruthyNum(props.minLen) /\ Get(props.minLen) < 0
    THEN [thrown |-> Some([message |-> MinLenError, value |-> toString(Get(props.minLen))]),
          this |-> None]
    ELSE IF TruthyNum(props.maxLen) /\ Get(props.maxLen) >= MAX_LEN
    THEN [thrown |-> Some([message |-> MaxLenError, value |-> toString(Get(props.maxLen))]),
          this |-> None]
    ELSE [thrown |-> None, this |-> Some([min |-> props.minLen, max |-> props.maxLen])]

StringAttr_constructor(props) ==
    IF TruthyNum(props.minLen) /\ Get(props.minLen) < 0
    THEN [thrown |-> Some([message |-> MinLenError, value |-> toString(Get(props.minLen))]),
          this |-> None]
    ELSE IF TruthyNum(props.maxLen) /\ Get(props.maxLen) > MAX_LEN
    THEN [thrown |-> Some([message |-> MaxLenError, value |-> toString(Get(props.maxLen))]),
          this |-> None]
    ELSE [thrown |-> None, this |-> Some([min |-> props.minLen, max |-> props.maxLen])]

StringAttr_bind(this) ==
    LET constraints ==
            [stringAttributeConstraints |->
                [minLength |-> optToString(this.min), maxLength |-> optToString(this.max)]]
    IN  [attrDataType |-> "String",
         constraints |-> IF TruthyNum(this.min) \/ TruthyNum(this.max)
                         THEN Some(constraints) ELSE None]

NumberAttr_constructor(props) ==
    [thrown |-> None, this |-> Some([min |-> props.min, max |-> props.max])]

NumberAttr_bind(this) ==
    LET constraints ==
            [numberAttributeConstraints |->
                [minValue |-> optToString(this.min), maxValue |-> optToString(this.max)]]
    IN  [attrDataType |-> "Number",
         constraints |-> IF TruthyNum(this.min) \/ TruthyNum(this.max)
                         THEN Some(constraints) ELSE None]

BooleanAttr_bind == [attrDataType |-> "Boolean", constraints |-> None]
DateTimeAttr_bind == [attrDataType |-> "DateTime", constraints |-> None]

\* attr holds the class, the bounds given, and what the constructor did
Constructed(class, given, r) ==
    Some([class |-> class, given |-> given, thrown |-> r.thrown, this |-> r.this])

NewStringAttr(props) ==
    /\ attr' = Constructed("StringAttr", [min |-> props.minLen, max |-> props.maxLen],
                           StringAttr_constructor(props))
    /\ config' = None
    /\ UNCHANGED <<tree, calls, last, imported>>

NewNumberAttr(props) ==
    /\ attr' = Constructed("NumberAttr", [min |-> props.min, max |-> props.max],
                           NumberAttr_constructor(props))
    /\ config' = None
    /\ UNCHANGED <<tree, calls, last, imported>>

NoBounds == [min |-> None, max |-> None]

NewBooleanAttr ==
    /\ attr' = Constructed("BooleanAttr", NoBounds, [thrown |-> None, this |-> Some(NoBounds)])
    /\ config' = None
    /\ UNCHANGED <<tree, calls, last, imported>>

NewDateTimeAttr ==
    /\ attr' = Constructed("DateTimeAttr", NoBounds, [thrown |-> None, this |-> Some(NoBounds)])
    /\ config' = None
    /\ UNCHANGED <<tree, calls, last, imported>>

\* ICustomAttr.bind() on the attribute constructed last
bind(a) ==
    CASE a.class = "StringAttr" -> StringAttr_bind(Get(a.this))
      [] a.class = "NumberAttr" -> NumberAttr_bind(Get(a.this))
      [] a.class = "BooleanAttr" -> BooleanAttr_bind
      [] a.class = "DateTimeAttr" -> DateTimeAttr_bind

Bind ==
    /\ IsDefined(attr)
    /\ IsDefined(Get(attr).this)
    /\ config = None
    /\ config' = Some(bind(Get(attr)))
    /\ UNCHANGED <<tree, calls, last, attr, imported>>

---------------------------------------------------------------------------

Init ==
    /\ tree = {}
    /\ calls = <<>>
    /\ last = None
    /\ attr = None
    /\ config = None
    /\ imported = None

\* queues are created in a scope
Next == \E props \in QueueProps : NewQueue(props)

Spec == Init /\ [][Next]_vars

\* queues are imported into a scope
NextImport == \E stack \in Stacks, attrs \in QueueAttributes : ImportQueue(stack, attrs)

SpecImport == Init /\ [][NextImport]_vars

\* custom attributes are constructed and bound
NextAttr ==
    \/ \E props \in StringAttrProps : NewStringAttr(props)
    \/ \E props \in NumberAttrProps : NewNumberAttr(props)
    \/ NewBooleanAttr
    \/ NewDateTimeAttr
    \/ Bind

SpecAttr == Init /\ [][NextAttr]_vars

---------------------------------------------------------------------------
(* Properties of `new Queue` *)

ValidationErrors == {FifoNameError, NonFifoNameError, DedupError}

Threw(r, messages) == IsDefined(r.thrown) /\ Get(r.thrown) \in messages
Succeeded(r) == r.thrown = None /\ IsDefined(r.queue)

HasName(props) == IsDefined(props.queueName)
LiteralName(props) == HasName(props) /\ ~isUnresolved(Get(props.queueName))
UnresolvedName(props) == HasName(props) /\ isUnresolved(Get(props.queueName))
NameEndsInFifo(props) == HasName(props) /\ endsWith(Get(props.queueName), FIFO_SUFFIX)

\* the key `new kms.Key(this, 'Key')` of the id-th queue
OwnKey(id) == ChildPath(QueuePath(id), "Key")
Keys == {n \in tree : n.kind = "Key"}

\* C1: with a literal name, a FIFO queue (fifo true, or fifo unset and inferred
\* from content-based deduplication) whose name lacks '.fifo' and a queue with
\* fifo false whose name ends in '.fifo' are rejected with a validation error;
\* a queue that is created has fifo = true exactly when its name ends in '.fifo'.
C1_FifoAgreesWithLiteralName ==
    IsDefined(last) /\ LiteralName(Get(last).props) =>
        LET l == Get(last)
            p == l.props
        IN  /\ (/\ \/ p.fifo = Some(TRUE)
                   \/ p.fifo = None /\ p.contentBasedDeduplication = Some(TRUE)
                /\ ~NameEndsInFifo(p)) => Threw(l, ValidationErrors)
            /\ (p.fifo = Some(FALSE) /\ NameEndsInFifo(p)) => Threw(l, ValidationErrors)
            /\ Succeeded(l) =>
                /\ Get(l.queue).fifo = NameEndsInFifo(p)
                /\ TruthyBool(Get(l.queue).resource.fifoQueue) = NameEndsInFifo(p)

\* a name ending in '.fifo' with fifo explicitly false has been rejected
C1_Witness ==
    /\ IsDefined(last)
    /\ Get(last).props.queueName = Some(<<"q">> \o FIFO_SUFFIX)
    /\ Get(last).props.fifo = Some(FALSE)
    /\ Threw(Get(last), {NonFifoNameError})

\* C2: a literal name ending in '.fifo' with fifo unset creates the queue,
\* whatever contentBasedDeduplication is: fifo is true and the CfnQueue gets
\* fifoQueue = true and the contentBasedDeduplication given.
C2_FifoInferredFromName ==
    (/\ IsDefined(last)
     /\ LiteralName(Get(last).props)
     /\ NameEndsInFifo(Get(last).props)
     /\ Get(last).props.fifo = None) =>
        LET l == Get(last)
        IN  /\ Succeeded(l)
            /\ Get(l.queue).fifo = TRUE
            /\ Get(l.queue).resource.fifoQueue = Some(TRUE)
            /\ Get(l.queue).resource.contentBasedDeduplication = l.props.contentBasedDeduplication

\* 'q.fifo' with contentBasedDeduplication = true and no fifo flag has been created
C2_Witness ==
    /\ IsDefined(last)
    /\ Get(last).props.queueName = Some(<<"q">> \o FIFO_SUFFIX)
    /\ Get(last).props.fifo = None
    /\ Get(last).props.contentBasedDeduplication = Some(TRUE)
    /\ Succeeded(Get(last))
    /\ Get(Get(last).queue).resource.fifoQueue = Some(TRUE)

\* the specs C3 is about: deduplication asked for, fifo unset or false, and a
\* name that is absent or does not end in '.fifo'
DedupWithoutFifo(p) ==
    /\ p.contentBasedDeduplication = Some(TRUE)
    /\ p.fifo \in {None, Some(FALSE)}
    /\ ~NameEndsInFifo(p)

\* C3 as stated: every such spec is rejected with a validation error.
C3_Original ==
    IsDefined(last) /\ DedupWithoutFifo(Get(last).props) =>
        Threw(Get(last), ValidationErrors)

\* C3 as amended: every such spec is rejected with a validation error, except
\* when fifo is unset and no name is given: then fifo is inferred from
\* contentBasedDeduplication and the queue is created as a FIFO queue.
C3_DedupNeedsFifo ==
    IsDefined(last) /\ DedupWithoutFifo(Get(last).props) =>
        LET l == Get(last)
        IN  IF l.props.fifo = None /\ ~HasName(l.props)
            THEN /\ Succeeded(l)
                 /\ Get(l.queue).fifo = TRUE
                 /\ Get(l.queue).resource.fifoQueue = Some(TRUE)
                 /\ Get(l.queue).resource.contentBasedDeduplication = Some(TRUE)
            ELSE Threw(l, ValidationErrors)

\* deduplication with fifo explicitly false and no name has been rejected
C3_Witness ==
    /\ IsDefined(last)
    /\ Get(last).props.contentBasedDeduplication = Some(TRUE)
    /\ Get(last).props.fifo = Some(FALSE)
    /\ ~HasName(Get(last).props)
    /\ Threw(Get(last), {DedupError})

\* C4: with a late-bound name the suffix is not checked: the queue is never
\* rejected with one of the two name/FIFO mismatch errors, and the name never
\* makes fifo true.
C4_UnresolvedNameSkipsSuffixCheck ==
    IsDefined(last) /\ UnresolvedName(Get(last).props) =>
        LET l == Get(last)
        IN  /\ ~Threw(l, {FifoNameError, NonFifoNameError})
            /\ (/\ Succeeded(l)
                /\ l.props.fifo = None
                /\ l.props.contentBasedDeduplication # Some(TRUE)) => Get(l.queue).fifo = FALSE

\* the queues that supply a key without asking for KMS
KeyWithoutKms(p) ==
    /\ IsDefined(p.encryptionMasterKey)
    /\ p.encryption \in {None, Some(UNENCRYPTED), Some(KMS_MANAGED)}

C6_FifoFailureCreatesNothing ==
    IsDefined(last) /\ Threw(Get(last), ValidationErrors) =>
        LET l == Get(last)
        IN  /\ Node(OwnKey(l.id), "Key") \notin tree
            /\ Node(ChildPath(QueuePath(l.id), "Resource"), "CfnQueue") \notin tree
            /\ l.queue = None

\* the constructor calls that ask for KMS and supply no key
WantsOwnKey(c) == c.encryption = Some(KMS) /\ c.encryptionMasterKey = None

\* C7: the keys created are exactly one per constructor call with mode KMS and
\* no supplied key, each below its own queue, and no other call creates a key;
\* a queue created that way holds its own key, so two equal specs get two keys.
C7_OneOwnedKeyPerKmsQueue ==
    /\ Cardinality(Keys) = Cardinality({i \in 1..Len(calls) : WantsOwnKey(calls[i])})
    /\ \A i \in 1..Len(calls) : WantsOwnKey(calls[i]) <=> Node(OwnKey(i), "Key") \in tree
    /\ \A n \in Keys : \E i \in 1..Len(calls) : n.path = OwnKey(i)
    /\ (IsDefined(last) /\ Succeeded(Get(last)) /\ WantsOwnKey(Get(last).props)) =>
           /\ Get(Get(last).queue).encryptionMasterKey = Some(OwnKey(Get(last).id))
           /\ \A i \in 1..(Get(last).id - 1) : OwnKey(i) # OwnKey(Get(last).id)

\* the same KMS spec without a key has been resolved twice and there are two keys
C7_Witness ==
    /\ Len(calls) = 2
    /\ calls[1] = calls[2]
    /\ WantsOwnKey(calls[1])
    /\ IsDefined(last) /\ Succeeded(Get(last))
    /\ Cardinality(Keys) = 2

---------------------------------------------------------------------------
(* Properties of the custom attributes *)

Bounded(a) == a.class \in {"StringAttr", "NumberAttr"}

\* the bounds the constraints sub-object of a bound attribute carries
CarriedBounds(a, c) ==
    IF a.class = "StringAttr"
    THEN [min |-> c.stringAttributeConstraints.minLength,
          max |-> c.stringAttributeConstraints.maxLength]
    ELSE [min |-> c.numberAttributeConstraints.minValue,
          max |-> c.numberAttributeConstraints.maxValue]

\* C8: bind() of a StringAttr or NumberAttr leaves out the constraints exactly
\* when neither bound was given; a bound that was given, 0 included, is carried.
C8_ConstraintsOmittedIffNoBound ==
    (IsDefined(attr) /\ Bounded(Get(attr)) /\ IsDefined(config)) =>
        LET a == Get(attr)
            c == Get(config).constraints
        IN  /\ (c = None) <=> (a.given.min = None /\ a.given.max = None)
            /\ IsDefined(c) =>
                /\ IsDefined(CarriedBounds(a, Get(c)).min) <=> IsDefined(a.given.min)
                /\ IsDefined(CarriedBounds(a, Get(c)).max) <=> IsDefined(a.given.max)

MinLenBad(g) == IsDefined(g.min) /\ Get(g.min) < 0
MaxLenBad(g) == IsDefined(g.max) /\ Get(g.max) > 2048

\* C9: a StringAttr with minLen < 0 or maxLen > 2048 is rejected with a message
\* citing the value (minLen's when both are wrong); every other StringAttr is
\* constructed, also with minLen > maxLen, and binds to 'String'; a NumberAttr
\* is constructed whatever its bounds.
C9_StringAttrBoundsValidated ==
    IsDefined(attr) =>
        LET a == Get(attr)
            g == a.given
        IN  /\ (a.class = "StringAttr" /\ MinLenBad(g)) =>
                /\ IsDefined(a.thrown)
                /\ Get(a.thrown).message = MinLenError
                /\ Get(a.thrown).value = toString(Get(g.min))
            /\ (a.class = "StringAttr" /\ MaxLenBad(g) /\ ~MinLenBad(g)) =>
                /\ IsDefined(a.thrown)
                /\ Get(a.thrown).message = MaxLenError
                /\ Get(a.thrown).value = toString(Get(g.max))
            /\ (a.class = "StringAttr" /\ ~MinLenBad(g) /\ ~MaxLenBad(g)) =>
                /\ a.thrown = None
                /\ a.this = Some(g)
                /\ IsDefined(config) => Get(config).attrDataType = "String"
            /\ a.class = "NumberAttr" => a.thrown = None /\ a.this = Some(g)

\* a StringAttr with maxLen = 2049 has been rejected, citing '2049'
C9_Witness ==
    /\ IsDefined(attr)
    /\ Get(attr).class = "StringAttr"
    /\ Get(attr).given.max = Some(2049)
    /\ IsDefined(Get(attr).thrown)
    /\ Get(Get(attr).thrown).value = <<"2", "0", "4", "9">>

---------------------------------------------------------------------------
(* Properties of Queue.fromQueueAttributes *)

Given(o) == IsDefined(o) /\ Get(o) # <<>>

\* C10: the imported queue's name is attrs.queueName or else the resource of
\* the ARN; its URL is attrs.queueUrl or else
\* https://sqs.<region>.<urlSuffix>/<account>/<name> of the importing stack;
\* fifo is true exactly when that name ends in '.fifo'; it has a key exactly
\* when attrs.keyArn is given, and that key has this ARN.
C10_ImportDerivesIdentifiers ==
    IsDefined(imported) =>
        LET i == Get(imported)
            a == i.attrs
            q == i.queue
        IN  /\ Given(a.queueName) => q.queueName = Get(a.queueName)
            /\ ~Given(a.queueName) =>
                   \E st \in Stacks :
                       a.queueArn = Arn("sqs", st.region, st.account, q.queueName)
            /\ Given(a.queueUrl) => q.queueUrl = Get(a.queueUrl)
            /\ ~Given(a.queueUrl) =>
                   q.queueUrl = <<"https://sqs.">> \o i.stack.region \o <<".">>
                                \o i.stack.urlSuffix \o <<"/">> \o i.stack.account
                                \o <<"/">> \o q.queueName
            /\ q.fifo = endsWith(q.queueName, FIFO_SUFFIX)
            /\ IsDefined(q.encryptionMasterKey) <=> Given(a.keyArn)
            /\ Given(a.keyArn) => Get(q.encryptionMasterKey).keyArn = Get(a.keyArn)
            /\ q.queueArn = a.queueArn

\* arn:aws:sqs:us-east-1:123456789012:myqueue alone has been imported
C10_Witness ==
    /\ IsDefined(imported)
    /\ Get(imported).attrs =
           [queueArn |-> <<"arn", ":", "aws", ":", "sqs", ":", "us-east-1", ":",
                           "123456789012", ":", "m", "y", "q", "u", "e", "u", "e">>,
            queueName |-> None, queueUrl |-> None, keyArn |-> None]
    /\ Get(imported).stack.region = <<"us-east-1">>
    /\ Get(imported).queue.queueName = <<"m", "y", "q", "u", "e", "u", "e">>
    /\ Get(imported).queue.fifo = FALSE
    /\ Get(imported).queue.queueUrl =
           <<"https://sqs.", "us-east-1", ".", "amazonaws.com", "/", "123456789012", "/",
             "m", "y", "q", "u", "e", "u", "e">>

====
